---- MODULE Spec2Model ----
(***************************************************************************)
(* Model of src/main.py: RichHideMyEmail, the bulk provisioning pipeline  *)
(* (_generate_one, _generate, generate), the Lister (list) and the entry   *)
(* points (ask_action, __main__).                                          *)
(*                                                                         *)
(* The remote client (generate_email, reserve_email, list_email) is the    *)
(* environment: every call is a suspension point whose response is chosen  *)
(* nondeterministically when the call returns.                             *)
(***************************************************************************)
EXTENDS Integers, Sequences, FiniteSets, TLC

VARIABLES
    pc,         \* position of the main coroutine (ask_action / generate / list)
    exitStatus, \* "running", or how the process ended: "normal" / "error"
    raised,     \* the exception that ended the run and where the main coroutine was
    num,        \* the argument of the _generate call in progress
    tasks,      \* the tasks of the wave in flight (_generate's local `tasks`)
    issued,     \* remote calls issued by the wave in flight
    service,    \* remote side: addresses created / reserved for the wave in flight
    batch,      \* the value _generate returned (generate's local `batch`)
    count,      \* generate's local `count`
    emails,     \* generate's local `emails`; only len(emails) is ever read (line 117)
    waves,      \* number of _generate calls made in the current outer cycle
    reported,   \* the count logged at line 117 for the current cycle, -1 before
    cycle,      \* tallies of the current outer cycle: workers that returned None,
                \* addresses the service reserved, calls the service did not grant
    remote,     \* the alias collection held by the service
    call,       \* the list() call in progress or last made on this instance
    table,      \* self.table
    file,       \* emails.txt
    prev,       \* the previous successful list() run, kept for comparison
    probe,      \* an envelope and the message each call site extracted from it
    target,     \* the value of the module global COUNT_TO_GENERATE read at line 111
    finished    \* history: the order in which the tasks of a wave finished,
                \* recorded only where it is switched on

pipe == <<num, tasks, issued, service, batch, count, emails, waves, reported, cycle>>

lister == <<remote, call, table, file, prev>>

vars == <<pc, exitStatus, raised, pipe, lister, probe, target, finished>>

-----------------------------------------------------------------------------
(* Program constants *)

MAX_CONCURRENT_TASKS == 5

COUNT_TO_GENERATE == 20

-----------------------------------------------------------------------------
(* Responses of the remote client.  A response is None or a dict (the      *)
(* decoded envelope).  Absent marks a key the dict does not carry.         *)

Absent == "absent"

None == "None"

\* shapes of the `error` value; errorMessage is the key of a dict-shaped error
ErrorShapes ==
    { [type |-> "absent", errorMessage |-> Absent],
      [type |-> "int",    errorMessage |-> Absent],
      [type |-> "bool",   errorMessage |-> Absent],
      [type |-> "str",    errorMessage |-> Absent],
      [type |-> "dict",   errorMessage |-> Absent],
      [type |-> "dict",   errorMessage |-> "E1"] }

\* every dict the service may answer with ("success" holds a truthy or a falsy value)
Envelopes ==
    [ type    : {"dict"},
      success : {Absent, "false", "true"},
      error   : ErrorShapes,
      reason  : {Absent, "R1"},
      result  : {Absent, "payload"} ]

\* the client returned nothing (timeout path of the client)
NoneResponse ==
    [type |-> "NoneType", success |-> Absent,
     error |-> [type |-> "absent", errorMessage |-> Absent],
     reason |-> Absent, result |-> Absent]

\* the empty dict {}
EmptyDict ==
    [type |-> "dict", success |-> Absent,
     error |-> [type |-> "absent", errorMessage |-> Absent],
     reason |-> Absent, result |-> Absent]

FailEnvelope ==
    [type |-> "dict", success |-> "false",
     error |-> [type |-> "int", errorMessage |-> Absent],
     reason |-> "R1", result |-> Absent]

OkEnvelope ==
    [type |-> "dict", success |-> "true",
     error |-> [type |-> "absent", errorMessage |-> Absent],
     reason |-> Absent, result |-> "payload"]

OkNoResult ==
    [type |-> "dict", success |-> "true",
     error |-> [type |-> "absent", errorMessage |-> Absent],
     reason |-> Absent, result |-> Absent]

\* one response of every outcome class, as seen by the pipeline
Responses == {NoneResponse, EmptyDict, FailEnvelope, OkEnvelope, OkNoResult}

\* Python truthiness of a response: None and {} are falsy
Truthy(res) ==
    /\ res.type = "dict"
    /\ \/ res.success # Absent
       \/ res.error.type # "absent"
       \/ res.reason # Absent
       \/ res.result # Absent

\* `"success" not in res or not res["success"]`
NotSuccess(res) == res.success = Absent \/ res.success = "false"

\* the service's own verdict carried by the envelope
ServiceSaidSuccess(res) == res.type = "dict" /\ res.success = "true"

-----------------------------------------------------------------------------
(* Error message extraction, once per call site as in the source *)

GenerateErrMsg(gen_res) ==
    LET error == IF gen_res.error.type # "absent" THEN gen_res.error
                 ELSE [type |-> "dict", errorMessage |-> Absent]
    IN  IF error.type = "int" /\ gen_res.reason # Absent THEN gen_res.reason
        ELSE IF error.type = "dict" /\ error.errorMessage # Absent
             THEN error.errorMessage
        ELSE "Unknown"

ReserveErrMsg(reserve_res) ==
    LET error == IF reserve_res.error.type # "absent" THEN reserve_res.error
                 ELSE [type |-> "dict", errorMessage |-> Absent]
    IN  IF error.type = "int" /\ reserve_res.reason # Absent THEN reserve_res.reason
        ELSE IF error.type = "dict" /\ error.errorMessage # Absent
             THEN error.errorMessage
        ELSE "Unknown"

NoException == [exc |-> "none", at |-> "none"]

NoTally == [none |-> 0, reserved |-> 0, refused |-> 0, creates |-> 0]

\* no message extracted yet at any call site
NoMsg == [generate |-> "none", reserve |-> "none", list |-> "none"]

NoProbe == [env |-> EmptyDict, msg |-> NoMsg]

-----------------------------------------------------------------------------
(* Exception handlers of the frames an exception unwinds through *)

\* Catches without the try/except of lines 183-186
CatchesNoMain(frame, exc) ==
    CASE frame = "generate"   -> exc = "KeyboardInterrupt"
      [] frame = "ask_action" -> exc \in {"KeyboardInterrupt", "ValueError"}
      [] OTHER                -> FALSE

Catches(frame, exc) ==
    CASE frame = "generate"   -> exc = "KeyboardInterrupt"
      [] frame = "ask_action" -> exc \in {"KeyboardInterrupt", "ValueError"}
      [] frame = "__main__"   -> exc = "KeyboardInterrupt"
      [] OTHER                -> FALSE

\* how the process ends when exc unwinds through frames, innermost first
Unwind(exc, frames) ==
    IF \E i \in 1..Len(frames) : Catches(frames[i], exc) THEN "normal" ELSE "error"

-----------------------------------------------------------------------------
(* _generate_one: one Lifecycle Worker *)

\* the address the service hands to the w-th create call of a wave
Addresses == <<"hme1", "hme2", "hme3", "hme4", "hme5">>

Hme(w) == Addresses[w]

\* a task right after ensure_future and its first step: create call in flight
NewTask ==
    [pc |-> "create", email |-> None, ret |-> None, log |-> <<>>,
     calls |-> <<[op |-> "create", arg |-> None]>>]

\* the completion order of a wave is not recorded
NotObserved == [on |-> FALSE, order |-> <<>>]

\* the completion order of a wave is recorded from its start
Observed == [on |-> TRUE, order |-> <<>>]

\* task w took a step and is now t: gather sees it finish (a return or a raise)
Observe(f, w, t) ==
    IF f.on /\ t.pc \in {"done", "raised"}
    THEN [f EXCEPT !.order = Append(@, w)]
    ELSE f

\* CreateOutcome without the success test of line 43: any envelope counts as granted
CreateOutcomeIgnoresFailure(gen_res) ==
    IF ~Truthy(gen_res) THEN "silent"
    ELSE IF ServiceSaidSuccess(gen_res) /\ gen_res.result = Absent THEN "KeyError"
    ELSE "ok"

\* what the worker does with the create response (lines 41-56)
CreateOutcome(gen_res) ==
    IF ~Truthy(gen_res) THEN "silent"
    ELSE IF NotSuccess(gen_res) THEN "error"
    ELSE IF gen_res.result = Absent THEN "KeyError"
    ELSE "ok"

\* ReserveOutcome without the success test of line 63
ReserveOutcomeUnchecked(reserve_res) ==
    IF ~Truthy(reserve_res) THEN "silent" ELSE "ok"

\* ReserveOutcome returning on a failure envelope without logging it
ReserveOutcomeSilent(reserve_res) ==
    IF ~Truthy(reserve_res) \/ NotSuccess(reserve_res) THEN "silent" ELSE "ok"

\* what the worker does with the reserve response (lines 61-76)
ReserveOutcome(reserve_res) ==
    IF ~Truthy(reserve_res) THEN "silent"
    ELSE IF NotSuccess(reserve_res) THEN "error"
    ELSE "ok"

\* the create call of worker w returns gen_res
GenerateOneCreated(w, gen_res) ==
    LET t == tasks[w]
        o == CreateOutcome(gen_res)
        t2 == CASE o = "silent" -> [t EXCEPT !.pc = "done"]
                [] o = "error" ->
                     [t EXCEPT !.pc = "done",
                               !.log = Append(@, [level |-> "ERR", site |-> "generate",
                                                  msg |-> GenerateErrMsg(gen_res)])]
                [] o = "KeyError" -> [t EXCEPT !.pc = "raised"]
                [] OTHER ->
                     [t EXCEPT !.pc = "reserve", !.email = Hme(w),
                               !.log = Append(@, [level |-> "50%", site |-> "generate",
                                                  msg |-> Hme(w)]),
                               !.calls = Append(@, [op |-> "reserve", arg |-> Hme(w)])]
    IN  /\ exitStatus = "running"
        /\ pc = "gather"
        /\ t.pc = "create"
        /\ tasks' = [tasks EXCEPT ![w] = t2]
        /\ issued' = IF o = "ok" THEN [issued EXCEPT !.reserve = @ + 1] ELSE issued
        /\ service' = IF ServiceSaidSuccess(gen_res) /\ gen_res.result # Absent
                      THEN [service EXCEPT !.created = @ \cup {Hme(w)}]
                      ELSE service
        /\ cycle' = IF ServiceSaidSuccess(gen_res) THEN cycle
                    ELSE [cycle EXCEPT !.refused = @ + 1]
        /\ finished' = Observe(finished, w, t2)
        /\ UNCHANGED <<pc, exitStatus, raised, num, batch, count, emails, waves,
                       reported, lister, probe, target>>

\* the reserve call of worker w returns reserve_res
GenerateOneReserved(w, reserve_res) ==
    LET t == tasks[w]
        o == ReserveOutcome(reserve_res)
        t2 == CASE o = "silent" -> [t EXCEPT !.pc = "done"]
                [] o = "error" ->
                     [t EXCEPT !.pc = "done",
                               !.log = Append(@, [level |-> "ERR", site |-> "reserve",
                                                  msg |-> ReserveErrMsg(reserve_res)])]
                [] OTHER ->
                     [t EXCEPT !.pc = "done", !.ret = t.email,
                               !.log = Append(@, [level |-> "100%", site |-> "reserve",
                                                  msg |-> t.email])]
    IN  /\ exitStatus = "running"
        /\ pc = "gather"
        /\ t.pc = "reserve"
        /\ tasks' = [tasks EXCEPT ![w] = t2]
        /\ service' = IF ServiceSaidSuccess(reserve_res)
                      THEN [service EXCEPT !.reserved = @ \cup {t.email}]
                      ELSE service
        /\ cycle' = IF ServiceSaidSuccess(reserve_res)
                    THEN [cycle EXCEPT !.reserved = @ + 1]
                    ELSE [cycle EXCEPT !.refused = @ + 1]
        /\ finished' = Observe(finished, w, t2)
        /\ UNCHANGED <<pc, exitStatus, raised, num, issued, batch, count, emails, waves,
                       reported, lister, probe, target>>

-----------------------------------------------------------------------------
(* _generate: one wave *)

\* Launch with an off-by-one loop bound: one task too many
LaunchOneMore(n) ==
    /\ num' = n
    /\ tasks' = [i \in 1..(n + 1) |-> NewTask]
    /\ issued' = [create |-> Len(tasks'), reserve |-> 0]
    /\ service' = [created |-> {}, reserved |-> {}]

\* Launch with every worker scheduled twice
LaunchTwice(n) ==
    /\ num' = n
    /\ tasks' = [i \in 1..(2 * n) |-> NewTask]
    /\ issued' = [create |-> Len(tasks'), reserve |-> 0]
    /\ service' = [created |-> {}, reserved |-> {}]

\* lines 79-82 and the first step of every task: num create calls in flight
Launch(n) ==
    /\ num' = n
    /\ tasks' = [i \in 1..n |-> NewTask]
    /\ issued' = [create |-> Len(tasks'), reserve |-> 0]
    /\ service' = [created |-> {}, reserved |-> {}]

\* FilterNotNone without the filter: the None of a failed worker stays in the batch
FilterNothing(results) == results

\* filter(lambda e: e is not None, results): results in submission order
FilterNotNone(results) == SelectSeq(results, LAMBDA e : e # None)

\* Results in the order the tasks finished (as_completed) instead of gather's order
ResultsAsCompleted == [i \in 1..Len(finished.order) |-> tasks[finished.order[i]].ret]

\* the list gather resolves to: one result per task, in the order of `tasks`
Results == [i \in 1..Len(tasks) |-> tasks[i].ret]

\* GenerateReturn resolving as soon as one task has finished (FIRST_COMPLETED)
GenerateReturnFirstCompleted ==
    /\ exitStatus = "running"
    /\ pc = "gather"
    /\ \E i \in 1..Len(tasks) : tasks[i].pc = "done"
    /\ batch' = FilterNotNone(Results)
    /\ pc' = "returned"
    /\ UNCHANGED <<exitStatus, raised, num, tasks, issued, service, count, emails,
                   waves, reported, cycle, lister, probe, target, finished>>

\* gather resolves once every task has finished, none with an exception
GenerateReturn ==
    /\ exitStatus = "running"
    /\ pc = "gather"
    /\ \A i \in 1..Len(tasks) : tasks[i].pc = "done"
    /\ batch' = FilterNotNone(Results)
    /\ pc' = "returned"
    /\ UNCHANGED <<exitStatus, raised, num, tasks, issued, service, count, emails,
                   waves, reported, cycle, lister, probe, target, finished>>

\* gather re-raises the first exception of a task into _generate and generate;
\* the loop stops and the pending tasks are never resumed
GenerateRaise ==
    /\ exitStatus = "running"
    /\ pc = "gather"
    /\ \E i \in 1..Len(tasks) : tasks[i].pc = "raised"
    /\ pc' = "exit"
    /\ raised' = [exc |-> "KeyError", at |-> pc]
    /\ exitStatus' = Unwind("KeyError", <<"generate", "ask_action", "__main__">>)
    /\ tasks' = <<>>
    /\ UNCHANGED <<num, issued, service, batch, count, emails, waves, reported,
                   cycle, lister, probe, target, finished>>

-----------------------------------------------------------------------------
(* The Lister: list(active, search) *)

MaxAliases == 3

MaxRuns == 2

Shop == <<"s", "h", "o", "p">>

Workshop == <<"w", "o", "r", "k", "s", "h", "o", "p">>

Bank == <<"b", "a", "n", "k">>

\* records of the service's hmeEmails list; createTimestamp in epoch milliseconds
AliasRecords ==
    { [label |-> Shop,     hme |-> "a@icloud", createTimestamp |-> 0,     isActive |-> TRUE],
      [label |-> Workshop, hme |-> "b@icloud", createTimestamp |-> 59999, isActive |-> FALSE],
      [label |-> Bank,     hme |-> "c@icloud", createTimestamp |-> 60000, isActive |-> FALSE] }

SeqsUpTo(S, n) == UNION { [1..k -> S] : k \in 0..n }

RemoteSets == SeqsUpTo(AliasRecords, MaxAliases)

\* the `search` argument: None, or a pattern of literal characters
NoSearch == [given |-> FALSE, pattern |-> <<>>]

Searches == {NoSearch, [given |-> TRUE, pattern |-> Shop],
             [given |-> TRUE, pattern |-> <<"k">>]}

\* re.search(pattern, s) for a pattern of literal characters: substring search
ReSearch(pattern, s) ==
    \E i \in 0..(Len(s) - Len(pattern)) : SubSeq(s, i + 1, i + Len(pattern)) = pattern

\* datetime.fromtimestamp(ms / 1000).strftime("%Y-%m-%d %H:%M"): the minute it falls in
FormatTime(ms) == (ms \div 1000) \div 60

Status(email) == IF email.isActive THEN "Active" ELSE "Inactive"

\* f"{label};{hme};{creation_time};{status}": the four fields of one line
ExportRow(email) ==
    <<email.label, email.hme, FormatTime(email.createTimestamp), Status(email)>>

\* the cells handed to table.add_row
TableRow(email) ==
    <<email.label, email.hme, FormatTime(email.createTimestamp), Status(email)>>

\* lines 153-154: whether the record gets a table row
Shown(email, active, search) ==
    /\ email.isActive = active
    /\ (~search.given \/ ReSearch(search.pattern, email.label))

Columns == <<"Label", "Hide my email", "Creation Time", "Status">>

EmptyTable == [columns |-> <<>>, rows |-> <<>>]

NotPrinted == [shown |-> FALSE, columns |-> <<>>, rows |-> <<>>]

NoFile == [exists |-> FALSE, lines |-> <<>>]

NoCall ==
    [n |-> 0, active |-> TRUE, search |-> NoSearch, outcome |-> "none",
     hmeEmails |-> <<>>, log |-> <<>>, printed |-> NotPrinted]

NoPrev ==
    [valid |-> FALSE, active |-> TRUE, search |-> NoSearch, hmeEmails |-> <<>>,
     lines |-> <<>>]

\* a freshly constructed instance (__init__), no export file yet
InitLister ==
    /\ remote = <<>>
    /\ call = NoCall
    /\ table = EmptyTable
    /\ file = NoFile
    /\ prev = NoPrev
    /\ probe = NoProbe
    /\ target = COUNT_TO_GENERATE
    /\ finished = NotObserved

\* ListErrMsg without the integer-code branch of lines 132-133
ListErrMsgNoReason(gen_res) ==
    LET error == IF gen_res.error.type # "absent" THEN gen_res.error
                 ELSE [type |-> "dict", errorMessage |-> Absent]
    IN  IF error.type = "dict" /\ error.errorMessage # Absent
        THEN error.errorMessage
        ELSE "Unknown"

ListErrMsg(gen_res) ==
    LET error == IF gen_res.error.type # "absent" THEN gen_res.error
                 ELSE [type |-> "dict", errorMessage |-> Absent]
    IN  IF error.type = "int" /\ gen_res.reason # Absent THEN gen_res.reason
        ELSE IF error.type = "dict" /\ error.errorMessage # Absent
             THEN error.errorMessage
        ELSE "Unknown"

\* ListOutcome without the success test of line 129: any envelope counts as granted
ListOutcomeIgnoresFailure(gen_res) ==
    IF ~Truthy(gen_res) THEN "silent"
    ELSE IF gen_res.result = Absent THEN "KeyError"
    ELSE "ok"

\* what list() does with the fetch response (lines 126-147)
ListOutcome(gen_res) ==
    IF ~Truthy(gen_res) THEN "silent"
    ELSE IF NotSuccess(gen_res) THEN "error"
    ELSE IF gen_res.result = Absent THEN "KeyError"
    ELSE "ok"

\* lines 141-144
AddColumns(t) == [t EXCEPT !.columns = @ \o Columns]

\* lines 146-160: the rows added to the table by one pass over the records
AddRows(t, hmeEmails, active, search) ==
    LET shown == SelectSeq(hmeEmails, LAMBDA email : Shown(email, active, search))
    IN  [t EXCEPT !.rows = @ \o [i \in 1..Len(shown) |-> TableRow(shown[i])]]

\* EmailStrings with the append of line 152 moved under the filter of lines 153-154
EmailStringsShown(hmeEmails) ==
    LET shown == SelectSeq(hmeEmails,
                           LAMBDA email : Shown(email, call.active, call.search))
    IN  [i \in 1..Len(shown) |-> ExportRow(shown[i])]

\* lines 146-152: email_strings after the pass
EmailStrings(hmeEmails) == [i \in 1..Len(hmeEmails) |-> ExportRow(hmeEmails[i])]

\* WriteFile with mode "a" in place of "w"
WriteFileAppend(old, email_strings) ==
    [exists |-> TRUE, lines |-> old.lines \o email_strings]

\* open("emails.txt", "w") and write: the file holds exactly what is written
WriteFile(old, email_strings) == [exists |-> TRUE, lines |-> email_strings]

\* lines 122-125: list(active, search) is called and awaits list_email
ListCall(active, search) ==
    /\ call' = [n |-> call.n + 1, active |-> active, search |-> search,
                outcome |-> "none", hmeEmails |-> <<>>, log |-> <<>>,
                printed |-> NotPrinted]
    /\ prev' = IF call.outcome = "ok"
               THEN [valid |-> TRUE, active |-> call.active, search |-> call.search,
                     hmeEmails |-> call.hmeEmails, lines |-> file.lines]
               ELSE prev
    /\ UNCHANGED <<table, file>>

\* lines 126-164: list_email returned gen_res; its payload is the service's collection
ListBody(gen_res) ==
    LET o == ListOutcome(gen_res)
        hmeEmails == remote
        t1 == AddColumns(table)
        t2 == AddRows(t1, hmeEmails, call.active, call.search)
    IN  /\ o = "silent" =>
             /\ call' = [call EXCEPT !.outcome = o]
             /\ UNCHANGED <<table, file>>
        /\ o = "error" =>
             /\ call' = [call EXCEPT !.outcome = o,
                           !.log = Append(@, [level |-> "ERR", site |-> "list",
                                              msg |-> ListErrMsg(gen_res)])]
             /\ UNCHANGED <<table, file>>
        /\ o = "KeyError" =>
             /\ call' = [call EXCEPT !.outcome = o]
             /\ table' = t1
             /\ UNCHANGED file
        /\ o = "ok" =>
             /\ call' = [call EXCEPT !.outcome = o, !.hmeEmails = hmeEmails,
                           !.printed = [shown |-> TRUE, columns |-> t2.columns,
                                        rows |-> t2.rows],
                           !.log = Append(@, [level |-> "INFO", site |-> "list",
                                              msg |-> "Written"])]
             /\ table' = t2
             /\ file' = WriteFile(file, EmailStrings(hmeEmails))
        /\ UNCHANGED <<remote, prev>>

-----------------------------------------------------------------------------
(* The Lister used as an object: list() called repeatedly on one instance *)

\* an export file left by an earlier process
StaleFile ==
    [exists |-> TRUE,
     lines |-> [i \in 1..(MaxAliases + 2) |->
                  <<Bank, "z@icloud", FormatTime(120000), "Active">>]]

InitApi ==
    /\ pc = "idle"
    /\ exitStatus = "running"
    /\ raised = NoException
    /\ num = 0
    /\ tasks = <<>>
    /\ issued = [create |-> 0, reserve |-> 0]
    /\ service = [created |-> {}, reserved |-> {}]
    /\ batch = <<>>
    /\ count = 0
    /\ emails = 0
    /\ waves = 0
    /\ reported = -1
    /\ cycle = NoTally
    /\ remote \in RemoteSets
    /\ call = NoCall
    /\ table = EmptyTable
    /\ file \in {NoFile, StaleFile}
    /\ prev = NoPrev
    /\ probe = NoProbe
    /\ target = COUNT_TO_GENERATE
    /\ finished = NotObserved

ApiList(active, search) ==
    /\ exitStatus = "running"
    /\ pc = "idle"
    /\ call.n < MaxRuns
    /\ ListCall(active, search)
    /\ pc' = "list"
    /\ UNCHANGED <<exitStatus, raised, pipe, probe, remote, target, finished>>

ApiListReturn(gen_res) ==
    /\ exitStatus = "running"
    /\ pc = "list"
    /\ ListBody(gen_res)
    /\ IF ListOutcome(gen_res) = "KeyError"
       THEN /\ pc' = "exit"
            /\ raised' = [exc |-> "KeyError", at |-> pc]
            /\ exitStatus' = Unwind("KeyError", <<>>)
       ELSE /\ pc' = "idle"
            /\ UNCHANGED <<exitStatus, raised>>
    /\ UNCHANGED <<pipe, probe, target, finished>>

\* the service drops its oldest alias between two runs
RemoteDelete ==
    /\ exitStatus = "running"
    /\ pc = "idle"
    /\ remote # <<>>
    /\ remote' = Tail(remote)
    /\ UNCHANGED <<pc, exitStatus, raised, pipe, probe, call, table, file, prev,
                   target, finished>>

NextLister ==
    \/ \E active \in BOOLEAN : \E search \in Searches : ApiList(active, search)
    \/ \E res \in Responses : ApiListReturn(res)
    \/ RemoteDelete

SpecLister == InitApi /\ [][NextLister]_vars

-----------------------------------------------------------------------------
(* One call of _generate(num) on its own, for every num up to the bound *)

InitBatch ==
    /\ pc = "call"
    /\ exitStatus = "running"
    /\ raised = NoException
    /\ num \in 0..MAX_CONCURRENT_TASKS
    /\ tasks = <<>>
    /\ issued = [create |-> 0, reserve |-> 0]
    /\ service = [created |-> {}, reserved |-> {}]
    /\ batch = <<>>
    /\ count = 0
    /\ emails = 0
    /\ waves = 1
    /\ reported = -1
    /\ cycle = NoTally
    /\ InitLister

\* _generate(num) is called
BatchCall ==
    /\ exitStatus = "running"
    /\ pc = "call"
    /\ Launch(num)
    /\ pc' = "gather"
    /\ UNCHANGED <<exitStatus, raised, batch, count, emails, waves, reported, cycle,
                   lister, probe, target, finished>>

NextBatch ==
    \/ BatchCall
    \/ \E w \in 1..Len(tasks) : \E res \in Responses : GenerateOneCreated(w, res)
    \/ \E w \in 1..Len(tasks) : \E res \in Responses : GenerateOneReserved(w, res)
    \/ GenerateReturn
    \/ GenerateRaise

SpecBatch == InitBatch /\ [][NextBatch]_vars

MaxWave == 3

\* the same call with the completion order of the wave recorded
InitOrder ==
    /\ pc = "call"
    /\ exitStatus = "running"
    /\ raised = NoException
    /\ num \in 0..MaxWave
    /\ tasks = <<>>
    /\ issued = [create |-> 0, reserve |-> 0]
    /\ service = [created |-> {}, reserved |-> {}]
    /\ batch = <<>>
    /\ count = 0
    /\ emails = 0
    /\ waves = 1
    /\ reported = -1
    /\ cycle = NoTally
    /\ remote = <<>>
    /\ call = NoCall
    /\ table = EmptyTable
    /\ file = NoFile
    /\ prev = NoPrev
    /\ probe = NoProbe
    /\ target = COUNT_TO_GENERATE
    /\ finished = Observed

SpecOrder == InitOrder /\ [][NextBatch]_vars

-----------------------------------------------------------------------------
(* generate: the Poll Loop *)

\* WaveSize launching everything that remains in one wave
WaveSizeRemaining(remaining) == remaining

\* the argument of _generate at line 114
WaveSize(remaining) == MAX_CONCURRENT_TASKS

\* Countdown by what the wave produced instead of by what was requested
CountdownBySuccesses(remaining, got) == remaining - Len(got)

\* line 116
Countdown(remaining, got) == remaining - MAX_CONCURRENT_TASKS

\* Collect with `emails = batch` in place of `emails += batch`
CollectReplace(collected, got) == Len(got)

\* line 115: emails += batch, observed through its length
Collect(collected, got) == collected + Len(got)

\* the `while count > 0` test at line 113 with the locals c (count) and e (emails):
\* either the next wave is launched or the cycle is reported and the sleep begins
LoopHead(c, e, w, tally) ==
    /\ count' = c
    /\ emails' = e
    /\ batch' = <<>>
    /\ IF c > 0
       THEN /\ Launch(WaveSize(c))
            /\ cycle' = [tally EXCEPT !.creates = @ + Len(tasks')]
            /\ waves' = w + 1
            /\ reported' = -1
            /\ pc' = "gather"
       ELSE /\ num' = 0
            /\ tasks' = <<>>
            /\ issued' = [create |-> 0, reserve |-> 0]
            /\ service' = [created |-> {}, reserved |-> {}]
            /\ cycle' = tally
            /\ waves' = w
            /\ reported' = e
            /\ pc' = "sleep"

\* lines 111-112: a new outer cycle
NewCycle == LoopHead(target, 0, 0, NoTally)

\* lines 115-116 after _generate returned, then the loop test
PollStep ==
    /\ exitStatus = "running"
    /\ pc = "returned"
    /\ LoopHead(Countdown(count, batch), Collect(emails, batch), waves,
                [cycle EXCEPT !.none = @ + Cardinality({i \in 1..Len(tasks) :
                                                          tasks[i].ret = None})])
    /\ UNCHANGED <<exitStatus, raised, lister, probe, target, finished>>

\* line 118: asyncio.sleep(SLEEP_INTERVAL) is over
Wake ==
    /\ exitStatus = "running"
    /\ pc = "sleep"
    /\ NewCycle
    /\ UNCHANGED <<exitStatus, raised, lister, probe, target, finished>>

-----------------------------------------------------------------------------
(* ask_action and __main__ *)

Init ==
    /\ pc = "menu"
    /\ exitStatus = "running"
    /\ raised = NoException
    /\ num = 0
    /\ tasks = <<>>
    /\ issued = [create |-> 0, reserve |-> 0]
    /\ service = [created |-> {}, reserved |-> {}]
    /\ batch = <<>>
    /\ count = 0
    /\ emails = 0
    /\ waves = 0
    /\ reported = -1
    /\ cycle = NoTally
    /\ InitLister

\* s == "1": generate()
AskGenerate ==
    /\ exitStatus = "running"
    /\ pc = "menu"
    /\ NewCycle
    /\ UNCHANGED <<exitStatus, raised, lister, probe, target, finished>>

\* s == "2": list(True); the service holds some alias collection at that time
AskList ==
    /\ exitStatus = "running"
    /\ pc = "menu"
    /\ ListCall(TRUE, NoSearch)
    /\ remote' \in RemoteSets
    /\ pc' = "list"
    /\ UNCHANGED <<exitStatus, raised, pipe, probe, target, finished>>

\* any other input: ValueError, caught at line 103
AskOther ==
    /\ exitStatus = "running"
    /\ pc = "menu"
    /\ pc' = "exit"
    /\ raised' = [exc |-> "ValueError", at |-> pc]
    /\ exitStatus' = Unwind("ValueError", <<"ask_action", "__main__">>)
    /\ UNCHANGED <<pipe, lister, probe, target, finished>>

\* list() returns into ask_action, which returns; the program ends
AskListReturn(gen_res) ==
    /\ exitStatus = "running"
    /\ pc = "list"
    /\ ListBody(gen_res)
    /\ pc' = "exit"
    /\ IF ListOutcome(gen_res) = "KeyError"
       THEN /\ raised' = [exc |-> "KeyError", at |-> pc]
            /\ exitStatus' = Unwind("KeyError", <<"ask_action", "__main__">>)
       ELSE /\ raised' = NoException
            /\ exitStatus' = "normal"
    /\ UNCHANGED <<pipe, probe, target, finished>>

\* the frames a KeyboardInterrupt unwinds through: at the prompt it is raised inside
\* ask_action's try; while the coroutine is suspended it is raised in the event
\* loop and leaves run_until_complete
InterruptFrames(at) ==
    IF at = "menu" THEN <<"ask_action", "__main__">> ELSE <<"__main__">>

\* Ctrl+C at the prompt or at a suspension point; the loop stops and the
\* pending tasks are never resumed
Interrupt ==
    /\ exitStatus = "running"
    /\ pc \in {"menu", "gather", "sleep", "list"}
    /\ pc' = "exit"
    /\ raised' = [exc |-> "KeyboardInterrupt", at |-> pc]
    /\ exitStatus' = Unwind("KeyboardInterrupt", InterruptFrames(pc))
    /\ tasks' = <<>>
    /\ UNCHANGED <<num, issued, service, batch, count, emails, waves, reported,
                   cycle, lister, probe, target, finished>>

Next ==
    \/ AskGenerate
    \/ AskList
    \/ AskOther
    \/ \E w \in 1..Len(tasks) : \E res \in Responses : GenerateOneCreated(w, res)
    \/ \E w \in 1..Len(tasks) : \E res \in Responses : GenerateOneReserved(w, res)
    \/ GenerateReturn
    \/ GenerateRaise
    \/ PollStep
    \/ Wake
    \/ \E res \in Responses : AskListReturn(res)
    \/ Interrupt

Spec == Init /\ [][Next]_vars

MaxTarget == 6

\* the program with COUNT_TO_GENERATE (line 17) set to another total
InitTarget ==
    /\ pc = "menu"
    /\ exitStatus = "running"
    /\ raised = NoException
    /\ num = 0
    /\ tasks = <<>>
    /\ issued = [create |-> 0, reserve |-> 0]
    /\ service = [created |-> {}, reserved |-> {}]
    /\ batch = <<>>
    /\ count = 0
    /\ emails = 0
    /\ waves = 0
    /\ reported = -1
    /\ cycle = NoTally
    /\ remote = <<>>
    /\ call = NoCall
    /\ table = EmptyTable
    /\ file = NoFile
    /\ prev = NoPrev
    /\ probe = NoProbe
    /\ target \in 1..MaxTarget
    /\ finished = NotObserved

SpecTarget == InitTarget /\ [][Next]_vars

-----------------------------------------------------------------------------
(* The three call sites fed one response each: what message each extracts *)

InitErr ==
    /\ pc = "probe"
    /\ exitStatus = "running"
    /\ raised = NoException
    /\ num = 0
    /\ tasks = <<>>
    /\ issued = [create |-> 0, reserve |-> 0]
    /\ service = [created |-> {}, reserved |-> {}]
    /\ batch = <<>>
    /\ count = 0
    /\ emails = 0
    /\ waves = 0
    /\ reported = -1
    /\ cycle = NoTally
    /\ remote = <<>>
    /\ call = NoCall
    /\ table = EmptyTable
    /\ file = NoFile
    /\ prev = NoPrev
    /\ \E res \in Envelopes \cup {NoneResponse} : probe = [env |-> res, msg |-> NoMsg]
    /\ target = COUNT_TO_GENERATE
    /\ finished = NotObserved

\* lines 43-52: generate_email answered probe.env
ExtractGenerate ==
    /\ pc = "probe"
    /\ probe.msg.generate = "none"
    /\ CreateOutcome(probe.env) = "error"
    /\ probe' = [probe EXCEPT !.msg.generate = GenerateErrMsg(probe.env)]
    /\ UNCHANGED <<pc, exitStatus, raised, pipe, lister, target, finished>>

\* lines 63-72: reserve_email answered probe.env
ExtractReserve ==
    /\ pc = "probe"
    /\ probe.msg.reserve = "none"
    /\ ReserveOutcome(probe.env) = "error"
    /\ probe' = [probe EXCEPT !.msg.reserve = ReserveErrMsg(probe.env)]
    /\ UNCHANGED <<pc, exitStatus, raised, pipe, lister, target, finished>>

\* lines 129-138: list_email answered probe.env
ExtractList ==
    /\ pc = "probe"
    /\ probe.msg.list = "none"
    /\ ListOutcome(probe.env) = "error"
    /\ probe' = [probe EXCEPT !.msg.list = ListErrMsg(probe.env)]
    /\ UNCHANGED <<pc, exitStatus, raised, pipe, lister, target, finished>>

NextErr == ExtractGenerate \/ ExtractReserve \/ ExtractList

SpecErr == InitErr /\ [][NextErr]_vars

-----------------------------------------------------------------------------
(* Properties *)

\* remote calls of kind op recorded by the tasks of the wave
CallCount(op) ==
    Cardinality({ij \in (1..Len(tasks)) \X (1..2) :
                   /\ ij[2] <= Len(tasks[ij[1]].calls)
                   /\ tasks[ij[1]].calls[ij[2]].op = op})

\* C1: one call of _generate(n), for every 0 <= n <= MAX_CONCURRENT_TASKS and every
\* combination of responses, issues exactly n create calls and at most n reserve
\* calls, and what it returns is a sequence of between 0 and n aliases.
C1_BatchCallCounts ==
    /\ pc # "call" => (issued.create = num /\ issued.reserve <= num)
    /\ pc \in {"gather", "returned"} =>
         /\ Len(tasks) = num
         /\ CallCount("create") = num
         /\ CallCount("reserve") = issued.reserve
    /\ pc = "returned" => (Len(batch) >= 0 /\ Len(batch) <= num)

C1_Witness ==
    /\ pc = "returned"
    /\ num = MAX_CONCURRENT_TASKS
    /\ issued.reserve = 3
    /\ Len(batch) = 2

\* C2: a worker returns an alias only if the service granted both its create and
\* its reserve call; a worker whose reserve call came back empty or failing
\* returns nothing although create succeeded, so every address of a batch result
\* is a reserved one and the collected list never outgrows the reservations.
C2_NoPartialAlias ==
    /\ \A w \in 1..Len(tasks) :
         /\ tasks[w].ret # None =>
              /\ tasks[w].ret = tasks[w].email
              /\ tasks[w].ret \in service.created
              /\ tasks[w].ret \in service.reserved
         /\ (tasks[w].pc = "done" /\ tasks[w].email \notin service.reserved) =>
              tasks[w].ret = None
    /\ pc = "returned" => \A i \in 1..Len(batch) : batch[i] \in service.reserved
    /\ pc \in {"gather", "returned", "sleep"} => emails <= cycle.reserved
    /\ pc = "sleep" => reported <= cycle.reserved

\* a wave came back in which one worker was granted create but not reserve
C2_Witness ==
    /\ pc = "returned"
    /\ \E w \in 1..Len(tasks) :
         /\ tasks[w].email \in service.created
         /\ tasks[w].email \notin service.reserved
         /\ tasks[w].ret = None
    /\ \E w \in 1..Len(tasks) : tasks[w].ret # None
    /\ emails > 0

\* C3: with COUNT_TO_GENERATE = 20 and MAX_CONCURRENT_TASKS = 5, a cycle in which the
\* service granted every call runs exactly 4 waves of 5 workers, collects 20
\* aliases, reports 20 and only then sleeps; a fifth wave never starts.
C3_FourWavesOfFive ==
    /\ pc \in {"gather", "returned"} =>
         (waves >= 1 /\ waves <= 4 /\ num = 5 /\ Len(tasks) = 5 /\ reported = -1)
    /\ pc = "sleep" => waves = 4
    /\ (pc = "sleep" /\ cycle.refused = 0) =>
         (emails = 20 /\ reported = 20 /\ cycle.reserved = 20)

C3_Witness == pc = "sleep" /\ cycle.refused = 0 /\ reported = 20 /\ waves = 4

\* C4: the countdown drops by MAX_CONCURRENT_TASKS per wave whatever the wave
\* produced, so every cycle has the same number of waves, none is added to make up
\* for failures, and a cycle with a failed worker collects fewer than
\* COUNT_TO_GENERATE aliases.
C4_CountdownIgnoresFailures ==
    /\ pc \in {"gather", "returned"} =>
         count = COUNT_TO_GENERATE - MAX_CONCURRENT_TASKS * (waves - 1)
    /\ pc = "sleep" =>
         /\ waves * MAX_CONCURRENT_TASKS = COUNT_TO_GENERATE
         /\ reported = COUNT_TO_GENERATE - cycle.none
         /\ cycle.none >= 1 => reported < COUNT_TO_GENERATE

\* the first wave lost 2 of its 5 workers and the countdown still went from 20 to
\* 15; the second wave, all 5 reserve calls issued and 2 of them refused, returned 3
C4_Witness ==
    /\ pc = "returned"
    /\ waves = 2
    /\ emails = 3
    /\ cycle.none = 2
    /\ count = COUNT_TO_GENERATE - MAX_CONCURRENT_TASKS
    /\ issued.reserve = MAX_CONCURRENT_TASKS
    /\ Len(batch) = 3

\* the message C5 names for an envelope
ClaimedMessage(env) ==
    CASE env.error.type = "int" /\ env.reason # Absent -> env.reason
      [] env.error.type = "dict" /\ env.error.errorMessage # Absent ->
           env.error.errorMessage
      [] OTHER -> "Unknown"

\* C5: for a failing envelope, each of the three call sites extracts the sibling
\* reason when error is an integer and reason is present, error.errorMessage when
\* error is an object carrying it, and "Unknown" otherwise; the three sites agree.
C5_ErrorMessage ==
    /\ probe.msg.generate # "none" => probe.msg.generate = ClaimedMessage(probe.env)
    /\ probe.msg.reserve # "none" => probe.msg.reserve = ClaimedMessage(probe.env)
    /\ probe.msg.list # "none" => probe.msg.list = ClaimedMessage(probe.env)
    /\ (pc = "probe" /\ ~ENABLED NextErr /\ Truthy(probe.env) /\ NotSuccess(probe.env)) =>
         /\ probe.msg.generate # "none"
         /\ probe.msg.reserve = probe.msg.generate
         /\ probe.msg.list = probe.msg.generate

\* all three sites extracted the sibling reason of an integer-coded failure
C5_Witness ==
    /\ probe.env.error.type = "int"
    /\ probe.env.reason = "R1"
    /\ probe.msg = [generate |-> "R1", reserve |-> "R1", list |-> "R1"]

\* the table rows C8 names for a fetch under a filter
ClaimedRows(hmeEmails, active, search) ==
    LET keep == SelectSeq(hmeEmails,
                          LAMBDA e : /\ e.isActive = active
                                     /\ (~search.given \/ ReSearch(search.pattern, e.label)))
    IN  [i \in 1..Len(keep) |->
           <<keep[i].label, keep[i].hme, FormatTime(keep[i].createTimestamp),
             IF keep[i].isActive THEN "Active" ELSE "Inactive">>]

\* C6: after a list() run whose fetch succeeded, emails.txt holds exactly one line
\* per fetched record, in the order of the fetch, whatever the filter and the
\* pattern; nothing of an earlier file remains.
C6_ExportIsWholeFetch ==
    (pc = "idle" /\ call.outcome = "ok") =>
        /\ file.exists
        /\ Len(file.lines) = Len(call.hmeEmails)
        /\ \A i \in 1..Len(call.hmeEmails) :
             file.lines[i] = <<call.hmeEmails[i].label, call.hmeEmails[i].hme,
                               FormatTime(call.hmeEmails[i].createTimestamp),
                               IF call.hmeEmails[i].isActive THEN "Active"
                               ELSE "Inactive">>

\* a filtered second run over a shrunken collection replaced a longer file
C6_Witness ==
    /\ pc = "idle"
    /\ call.outcome = "ok"
    /\ call.n = 2
    /\ prev.valid
    /\ call.search.given
    /\ Len(file.lines) = 2
    /\ Len(prev.lines) = 3
    /\ Len(call.printed.rows) < Len(file.lines)

\* C7: two list() runs against the same alias collection under different
\* (active, search) pairs leave the same emails.txt.
C7_FilterDoesNotChangeExport ==
    ( /\ pc = "idle"
      /\ call.outcome = "ok"
      /\ prev.valid
      /\ prev.hmeEmails = call.hmeEmails
      /\ <<prev.active, prev.search>> # <<call.active, call.search>> ) =>
        file.lines = prev.lines

\* the second run saw the same three records under the opposite flag and a pattern
C7_Witness ==
    /\ pc = "idle"
    /\ call.outcome = "ok"
    /\ prev.valid
    /\ prev.hmeEmails = call.hmeEmails
    /\ Len(call.hmeEmails) = 3
    /\ prev.active # call.active
    /\ prev.search # call.search
    /\ file.lines = prev.lines
    /\ Len(call.printed.rows) = 1

\* C8: after any list() run whose fetch succeeded, a later run on the same
\* instance included, the printed table holds exactly the fetched records that
\* pass the filter, each once, under the four columns.
C8_TableShowsFilteredFetch ==
    (pc = "idle" /\ call.outcome = "ok") =>
        /\ call.printed.shown
        /\ call.printed.columns = <<"Label", "Hide my email", "Creation Time", "Status">>
        /\ call.printed.rows = ClaimedRows(call.hmeEmails, call.active, call.search)

\* C9: Ctrl+C at a suspension point ends the whole pipeline as a normal exit,
\* without an error report, and nothing runs afterwards: no task is left to
\* issue a create or reserve call and no step is enabled.
C9_InterruptExitsCleanly ==
    raised.exc = "KeyboardInterrupt" =>
        /\ pc = "exit"
        /\ exitStatus = "normal"
        /\ tasks = <<>>
        /\ ~ENABLED Next

\* interrupted during the first wave with two reserve calls and no create call
\* unanswered
C9_Witness ==
    /\ raised = [exc |-> "KeyboardInterrupt", at |-> "gather"]
    /\ exitStatus = "normal"
    /\ waves = 1
    /\ issued.reserve = MAX_CONCURRENT_TASKS
    /\ cycle.reserved + cycle.refused = 3

\* C10: whatever envelope the service returns, a worker and the Lister end by
\* returning, never by raising; the wave and the cycle never see an exception.
C10_WorkersNeverRaise ==
    /\ \A w \in 1..Len(tasks) : tasks[w].pc # "raised"
    /\ raised.exc \notin {"KeyError"}
    /\ exitStatus # "error"

\* the workers in flight: between the start of their create call and their return
InFlight == {w \in 1..Len(tasks) : tasks[w].pc \in {"create", "reserve"}}

Drained == \A w \in 1..Len(tasks) : tasks[w].pc = "done"

\* C11: waves are strictly sequential.  _generate returns only when every worker of
\* its wave has returned; no worker is in flight once the wave is over, during the
\* sleep or when a cycle begins; a wave starts (the wave count changes) only from a
\* state in which the previous wave has fully drained.
C11_WavesStrictlySequential ==
    /\ [](pc = "returned" => (Drained /\ Len(tasks) = num))
    /\ [](pc \notin {"gather", "returned"} => tasks = <<>>)
    /\ [][waves' # waves =>
            /\ InFlight = {}
            /\ pc \in {"menu", "returned", "sleep"}
            /\ \A w \in 1..Len(tasks') : tasks'[w] = NewTask]_vars

\* the third wave is held open by one straggler awaiting its reserve response
C11_Witness ==
    /\ pc = "gather"
    /\ waves = 3
    /\ emails > 0
    /\ Cardinality(InFlight) = 1
    /\ \E w \in InFlight : w < Len(tasks) /\ tasks[w].pc = "reserve"

\* C12: in every reachable state, under every interleaving of worker steps, at
\* most MAX_CONCURRENT_TASKS workers are in flight.
C12_BoundedInFlight ==
    /\ Cardinality(InFlight) <= MAX_CONCURRENT_TASKS
    /\ Len(tasks) <= MAX_CONCURRENT_TASKS

\* a later wave with all its workers in flight, some awaiting create and some reserve
C12_Witness ==
    /\ pc = "gather"
    /\ waves = 2
    /\ Cardinality(InFlight) = MAX_CONCURRENT_TASKS
    /\ \E w \in InFlight : tasks[w].pc = "create"
    /\ \E w \in InFlight : tasks[w].pc = "reserve"

\* C13: what _generate returns lists the aliases of the workers that succeeded in the
\* order the workers were submitted, whatever the order in which they finished: each
\* surviving alias appears once, and the alias of worker i precedes the alias of
\* worker j whenever i < j.
C13_SubmissionOrder ==
    pc = "returned" =>
        /\ Len(batch) = Cardinality({w \in 1..Len(tasks) : tasks[w].ret # None})
        /\ \A a \in 1..Len(batch) : \E w \in 1..Len(tasks) : tasks[w].ret = batch[a]
        /\ \A i, j \in 1..Len(tasks) :
             (i < j /\ tasks[i].ret # None /\ tasks[j].ret # None) =>
                 \E a, b \in 1..Len(batch) :
                     a < b /\ batch[a] = tasks[i].ret /\ batch[b] = tasks[j].ret

\* worker 3 finished first and worker 1 last, both with an alias; worker 2 failed
C13_Witness ==
    /\ pc = "returned"
    /\ finished.order = <<3, 2, 1>>
    /\ batch = <<Hme(1), Hme(3)>>

Min(a, b) == IF a <= b THEN a ELSE b

\* C14: for every total, each wave of the Poll Loop requests
\* min(MAX_CONCURRENT_TASKS, remaining) workers, so the create calls of one cycle
\* add up to the total and never exceed it, also when the total is not a multiple
\* of MAX_CONCURRENT_TASKS.
C14_WavesCappedByRemaining ==
    /\ pc \in {"gather", "returned"} =>
         /\ num = Min(MAX_CONCURRENT_TASKS, count)
         /\ issued.create = num
    /\ cycle.creates <= target
    /\ pc = "sleep" => cycle.creates = target

\* C15: without an external interrupt the Poll Loop never reaches a terminated
\* state: once generate() has started, the run is over only if Ctrl+C ended it.
\* (The progress half of the claim, every cycle reaching its report and sleep and
\* every sleep being followed by a fresh cycle, presupposes this half.)
C15_LoopEndsOnlyByInterrupt ==
    (pc = "exit" /\ raised.at \in {"gather", "returned", "sleep"}) =>
        raised.exc = "KeyboardInterrupt"

\* C16: within one worker the remote calls are ordered and never repeated: create is
\* called exactly once and first, reserve at most once and only after that worker's
\* create returned a success envelope, with exactly the address create returned; a
\* worker whose create came back empty or failing never calls reserve.
C16_CallsOrderedNeverRepeated ==
    /\ \A w \in 1..Len(tasks) :
         LET t == tasks[w]
         IN  /\ Len(t.calls) \in {1, 2}
             /\ t.calls[1] = [op |-> "create", arg |-> None]
             /\ t.pc = "create" => Len(t.calls) = 1
             /\ Len(t.calls) = 2 =>
                  /\ t.calls[2] = [op |-> "reserve", arg |-> Hme(w)]
                  /\ Hme(w) \in service.created
                  /\ t.email = Hme(w)
             /\ (t.pc # "create" /\ Hme(w) \notin service.created) => Len(t.calls) = 1
    /\ pc \in {"gather", "returned"} =>
         issued.reserve = Cardinality({w \in 1..Len(tasks) : Len(tasks[w].calls) = 2})

\* a finished wave: one worker stopped after a refused create, one after a refused
\* reserve (not retried), one went through both calls
C16_Witness ==
    /\ pc = "returned"
    /\ num = MAX_CONCURRENT_TASKS
    /\ \E w \in 1..Len(tasks) :
         Len(tasks[w].calls) = 1 /\ Len(tasks[w].log) = 1
    /\ \E w \in 1..Len(tasks) :
         Len(tasks[w].calls) = 2 /\ tasks[w].ret = None
    /\ \E w \in 1..Len(tasks) :
         Len(tasks[w].calls) = 2 /\ tasks[w].ret = Hme(w)

\* C17: a list() run whose fetch yields an empty response or a failure envelope ends
\* without writing: emails.txt keeps the contents it had before the run, the table
\* is neither touched nor printed, and an error entry is logged (exactly one) only
\* in the failure-envelope case.
C17_FailedFetchWritesNothing ==
    /\ [][(pc = "idle" /\ pc' = "list") => (file' = file /\ table' = table)]_vars
    /\ [][\A res \in Responses :
            (ApiListReturn(res) /\ (~Truthy(res) \/ NotSuccess(res))) =>
                /\ file' = file
                /\ table' = table
                /\ call'.printed = NotPrinted
                /\ pc' = "idle"
                /\ IF Truthy(res)
                   THEN /\ Len(call'.log) = 1
                        /\ call'.log[1].level = "ERR"
                   ELSE call'.log = <<>>]_vars

\* the second run got a failure envelope: the three lines the first run wrote are
\* still the file, one error entry was logged and no table was printed
C17_Witness ==
    /\ pc = "idle"
    /\ call.n = 2
    /\ call.outcome = "error"
    /\ Len(call.log) = 1
    /\ ~call.printed.shown
    /\ prev.valid
    /\ Len(prev.lines) = 3
    /\ file.lines = prev.lines

\* the error entries of a log
ErrEntries(log) == SelectSeq(log, LAMBDA e : e.level = "ERR")

\* worker w took a step on a response that was empty (no ERR entry) or a failure
\* envelope (one ERR entry): it returned nothing, logged just that, raised nothing
QuietFailure(w, res) ==
    LET added == IF Truthy(res) THEN 1 ELSE 0
    IN  /\ tasks'[w].pc = "done"
        /\ tasks'[w].ret = None
        /\ Len(tasks'[w].log) = Len(tasks[w].log) + added
        /\ Len(ErrEntries(tasks'[w].log)) = Len(ErrEntries(tasks[w].log)) + added
        /\ raised' = raised
        /\ exitStatus' = "running"

\* C18: a worker tells the two failure kinds apart on the log only.  An empty
\* response at create or at reserve adds no error entry, a failure envelope
\* (success false or absent) adds exactly one; in both cases the worker returns
\* nothing and raises nothing, so no alias of it reaches the batch.
C18_FailureKindsOnLog ==
    /\ [][\A w \in 1..Len(tasks) : \A res \in Responses :
            (~Truthy(res) \/ NotSuccess(res)) =>
                /\ GenerateOneCreated(w, res) => QuietFailure(w, res)
                /\ GenerateOneReserved(w, res) => QuietFailure(w, res)]_vars
    /\ [](\A w \in 1..Len(tasks) :
             /\ Len(ErrEntries(tasks[w].log)) <= 1
             /\ Len(ErrEntries(tasks[w].log)) = 1 =>
                  (tasks[w].pc = "done" /\ tasks[w].ret = None))
    /\ [](pc = "returned" =>
             \A w \in 1..Len(tasks) :
                 tasks[w].ret = None => \A a \in 1..Len(batch) : batch[a] # Hme(w))

\* one wave showing all four cases: empty at create, failure at create, empty at
\* reserve, failure at reserve, next to one worker that succeeded
C18_Witness ==
    /\ pc = "returned"
    /\ Len(batch) = 1
    /\ \E w \in 1..Len(tasks) : Len(tasks[w].calls) = 1 /\ tasks[w].log = <<>>
    /\ \E w \in 1..Len(tasks) :
         Len(tasks[w].calls) = 1 /\ Len(ErrEntries(tasks[w].log)) = 1
    /\ \E w \in 1..Len(tasks) :
         /\ Len(tasks[w].calls) = 2
         /\ tasks[w].ret = None
         /\ ErrEntries(tasks[w].log) = <<>>
    /\ \E w \in 1..Len(tasks) :
         /\ Len(tasks[w].calls) = 2
         /\ Len(ErrEntries(tasks[w].log)) = 1
         /\ tasks[w].log[2].site = "reserve"

\* aliases the workers of the wave in flight have returned so far
Returned == {w \in 1..Len(tasks) : tasks[w].ret # None}

\* C19: the count reported at the end of a cycle is the number of reserve calls the
\* service granted during that cycle, and no more than the create calls it granted:
\* the collected list is empty when a cycle starts, whatever the cycle before
\* collected, and grows by exactly the aliases each wave of the cycle returns.
C19_ReportedIsReservedThisCycle ==
    /\ (pc = "gather" /\ waves = 1) => emails = 0
    /\ pc = "gather" => emails + Cardinality(Returned) = cycle.reserved
    /\ pc = "returned" =>
         /\ Len(batch) = Cardinality(service.reserved)
         /\ emails + Len(batch) = cycle.reserved
    /\ pc \in {"gather", "returned"} =>
         /\ service.reserved \subseteq service.created
         /\ Cardinality(service.created) <= issued.create
    /\ pc = "sleep" =>
         /\ reported = emails
         /\ reported = cycle.reserved
         /\ reported <= cycle.creates

\* a cycle ended in which the service granted 17 of the 20 reserve calls
C19_Witness ==
    /\ pc = "sleep"
    /\ reported = 17
    /\ cycle.reserved = 17
    /\ cycle.refused = 3
    /\ cycle.creates = COUNT_TO_GENERATE

====
